---- MODULE Spec2Model ----
(***************************************************************************)
(* Model of the ustx crate: the Version type (src/src/version.rs), the     *)
(* Project root record with its plain and upgrade-aware YAML entry points  *)
(* and the migration engine Project::convert_to (src/src/project.rs).      *)
(*                                                                         *)
(* Conventions.                                                            *)
(*   Option<T>   : <<>> is None, <<x>> is Some(x).                         *)
(*   String      : names and abbreviations that the code only compares as  *)
(*                 a whole are TLA+ strings; strings the code looks into   *)
(*                 (note lyrics, version texts) are sequences of           *)
(*                 one-character strings.                                  *)
(*   f64         : [nan |-> BOOLEAN, v |-> Int]; the only float operation  *)
(*                 of the code is the comparison `> 0.0`.                  *)
(*   Note fields pitch, vibrato, phoneme_overrides and phoneme_indexes,    *)
(*   and the Track fields other than track_expressions, are never read or  *)
(*   written by any operation modelled here and are not carried.           *)
(***************************************************************************)
EXTENDS Integers, Sequences, FiniteSets, TLC

VARIABLES
    project,   \* Option<Project>: the Project value the caller holds
    before,    \* the value of `project` when the last call was made
    op,        \* the last call
    arg,       \* its argument
    ret,       \* its Result
    log,       \* the mutations the last convert_to made, in order
    vValue,    \* a Version value (text round trip)
    vText,     \* Option<text>: its displayed form
    vParsed    \* Option<Result>: Version::from_str of that text

vars == <<project, before, op, arg, ret, log, vValue, vText, vParsed>>

projectVars == <<project, before, op, arg, ret, log>>

versionVars == <<vValue, vText, vParsed>>

(***************************************************************************)
(* Bounds of the model.                                                    *)
(***************************************************************************)
\* largest major number of a document or target version (minor 0 there)
MaxMajor == 1
\* largest minor number of a 0.x document or target version
MaxMinor == 8
\* largest patch number of the 0.4.x and 0.7.x document and target versions
MaxPatch == 1
\* largest component of a Version in the text round trip
MaxComp == 11

MaxTextLen == 4

(***************************************************************************)
(* Option                                                                  *)
(***************************************************************************)
None == <<>>

Some(x) == <<x>>

IsSome(o) == Len(o) = 1

Unwrap(o) == o[1]

(***************************************************************************)
(* Version (src/src/version.rs)                                            *)
(***************************************************************************)
Version(major, minor, patch) == [major |-> major, minor |-> minor, patch |-> patch]

VersionZero == Version(0, 0, 0)

CURRENT_VERSION == Version(0, 7, 0)

VERSION_0_4 == Version(0, 4, 0)

VERSION_0_5 == Version(0, 5, 0)

VERSION_0_6 == Version(0, 6, 0)

VERSION_0_7 == Version(0, 7, 0)

\* variant: one lower component is enough
VersionLt_any_component(a, b) ==
    \/ a.major < b.major
    \/ a.minor < b.minor
    \/ a.patch < b.patch

\* derive(PartialOrd, Ord): lexicographic on (major, minor, patch)
VersionLt(a, b) ==
    \/ a.major < b.major
    \/ a.major = b.major /\ a.minor < b.minor
    \/ a.major = b.major /\ a.minor = b.minor /\ a.patch < b.patch

VersionGt(a, b) == VersionLt(b, a)

VersionGe(a, b) == ~VersionLt(a, b)

VersionLe(a, b) == ~VersionLt(b, a)

(***************************************************************************)
(* Text: sequences of one-character strings                                *)
(***************************************************************************)
Digits == <<"0", "1", "2", "3", "4", "5", "6", "7", "8", "9">>

IsDigit(c) == \E i \in 1..10 : Digits[i] = c

DigitChar(d) == Digits[d + 1]

DigitVal(c) == CHOOSE d \in 0..9 : Digits[d + 1] = c

\* a letter, a digit or '-' : the characters of a semver identifier
IsIdentChar(c) == IsDigit(c) \/ c \in {"a", "b", "k", "r", "t", "x", "-"}

IsWhitespace(c) == c \in {" ", "\t", "\n"}

Drop(s, k) == SubSeq(s, k + 1, Len(s))

Take(s, k) == SubSeq(s, 1, k)

\* u64 formatted with "{}": decimal, no sign, no leading zero
RECURSIVE ToDigits(_)
ToDigits(n) ==
    IF n < 10 THEN <<DigitChar(n)>>
    ELSE ToDigits(n \div 10) \o <<DigitChar(n % 10)>>

RECURSIVE NumVal(_)
NumVal(ds) ==
    IF ds = <<>> THEN 0
    ELSE 10 * NumVal(Take(ds, Len(ds) - 1)) + DigitVal(ds[Len(ds)])

\* str::starts_with
starts_with(s, pat) == Len(s) >= Len(pat) /\ Take(s, Len(pat)) = pat

\* str::contains(char set)
contains(s, chars) == \E i \in 1..Len(s) : s[i] \in chars

\* str::match_indices(pat): start offsets (0-based) of the non-overlapping
\* matches of pat, found left to right from offset `from`
RECURSIVE match_indices(_, _, _)
match_indices(s, pat, from) ==
    IF from + Len(pat) > Len(s) THEN <<>>
    ELSE IF SubSeq(s, from + 1, from + Len(pat)) = pat
         THEN <<from>> \o match_indices(s, pat, from + Len(pat))
         ELSE match_indices(s, pat, from + 1)

\* the loop of str::replace over the matches: copy the text between the end
\* of the previous match and the start of this one, then the replacement
RECURSIVE replace_loop(_, _, _, _, _, _)
replace_loop(s, pat, to, starts, k, last_end) ==
    IF k > Len(starts) THEN SubSeq(s, last_end + 1, Len(s))
    ELSE SubSeq(s, last_end + 1, starts[k]) \o to
         \o replace_loop(s, pat, to, starts, k + 1, starts[k] + Len(pat))

\* variant: only the first match is replaced (str::replacen(pat, to, 1))
str_replace_first(s, pat, to) ==
    replace_loop(s, pat, to, Take(match_indices(s, pat, 0), 1), 1, 0)

\* str::replace(from, to)
str_replace(s, pat, to) == replace_loop(s, pat, to, match_indices(s, pat, 0), 1, 0)

\* str::split(sep) for a one-character separator
RECURSIVE split(_, _)
split(s, sep) ==
    IF \A i \in 1..Len(s) : s[i] # sep THEN <<s>>
    ELSE LET i == CHOOSE j \in 1..Len(s) :
                      s[j] = sep /\ \A k \in 1..(j - 1) : s[k] # sep
         IN  <<Take(s, i - 1)>> \o split(Drop(s, i), sep)

\* [&str]::join(sep)
RECURSIVE join(_, _)
join(segs, sep) ==
    IF segs = <<>> THEN <<>>
    ELSE IF Len(segs) = 1 THEN segs[1]
    ELSE segs[1] \o sep \o join(Tail(segs), sep)

\* Vec::resize(n, value)
resize(v, n, value) ==
    IF Len(v) >= n THEN Take(v, n)
    ELSE v \o [i \in 1..(n - Len(v)) |-> value]

\* str::trim
RECURSIVE trim_start(_)
trim_start(s) ==
    IF s # <<>> /\ IsWhitespace(s[1]) THEN trim_start(Tail(s)) ELSE s

RECURSIVE trim_end(_)
trim_end(s) ==
    IF s # <<>> /\ IsWhitespace(s[Len(s)]) THEN trim_end(Take(s, Len(s) - 1)) ELSE s

trim(s) == trim_end(trim_start(s))

(***************************************************************************)
(* semver::Version::parse, as called from version.rs: MAJOR.MINOR.PATCH    *)
(* with optional -PRERELEASE and +BUILD; numeric identifiers have no       *)
(* leading zero.  (The u64 overflow error is outside the modelled texts.)  *)
(***************************************************************************)
RECURSIVE DigitPrefixLen(_)
DigitPrefixLen(s) ==
    IF s # <<>> /\ IsDigit(s[1]) THEN 1 + DigitPrefixLen(Tail(s)) ELSE 0

RECURSIVE IdentPrefixLen(_)
IdentPrefixLen(s) ==
    IF s # <<>> /\ (IsIdentChar(s[1]) \/ s[1] = ".")
    THEN 1 + IdentPrefixLen(Tail(s)) ELSE 0

ParseFail == [ok |-> FALSE, val |-> 0, rest |-> <<>>]

\* numeric_identifier: digits, not empty, no leading zero
NumericIdentifier(s) ==
    LET n == DigitPrefixLen(s)
    IN  IF n = 0 THEN ParseFail
        ELSE IF n > 1 /\ s[1] = "0" THEN ParseFail
        ELSE [ok |-> TRUE, val |-> NumVal(Take(s, n)), rest |-> Drop(s, n)]

\* a '.' between two numeric identifiers
ParseDot(r) ==
    IF r.ok /\ r.rest # <<>> /\ r.rest[1] = "."
    THEN [r EXCEPT !.rest = Tail(r.rest)]
    ELSE ParseFail

AllDigits(s) == \A i \in 1..Len(s) : IsDigit(s[i])

\* prerelease / build identifiers: dot-separated, no empty segment; a
\* numeric prerelease segment has no leading zero
IdentifierOk(text, isPre) ==
    /\ text # <<>>
    /\ \A i \in 1..Len(split(text, ".")) :
          LET seg == split(text, ".")[i]
          IN  /\ seg # <<>>
              /\ (isPre /\ AllDigits(seg) /\ Len(seg) > 1) => seg[1] # "0"

SemverErr == [ok |-> FALSE, version |-> VersionZero]

SemverOk(v) == [ok |-> TRUE, version |-> v]

\* the text after PATCH: an optional '-' PRERELEASE, an optional '+' BUILD
HasMark(r, mark) == r # <<>> /\ r[1] = mark

MarkedIdent(r, mark) ==
    IF HasMark(r, mark) THEN Take(Tail(r), IdentPrefixLen(Tail(r))) ELSE <<>>

AfterIdent(r, mark) ==
    IF HasMark(r, mark) THEN Drop(Tail(r), IdentPrefixLen(Tail(r))) ELSE r

SemverBuild(v, r1) ==
    IF HasMark(r1, "+") /\ ~IdentifierOk(MarkedIdent(r1, "+"), FALSE) THEN SemverErr
    ELSE IF AfterIdent(r1, "+") # <<>> THEN SemverErr
    ELSE SemverOk(v)

SemverPre(v, r0) ==
    IF HasMark(r0, "-") /\ ~IdentifierOk(MarkedIdent(r0, "-"), TRUE) THEN SemverErr
    ELSE SemverBuild(v, AfterIdent(r0, "-"))

SemverPatch(major, minor, pa) ==
    IF ~pa.ok THEN SemverErr
    ELSE SemverPre(Version(major, minor, pa.val), pa.rest)

SemverMinorDot(major, mi, d2) ==
    IF ~d2.ok THEN SemverErr
    ELSE SemverPatch(major, mi.val, NumericIdentifier(d2.rest))

SemverMinor(major, mi) == SemverMinorDot(major, mi, ParseDot(mi))

SemverMajorDot(ma, d1) ==
    IF ~d1.ok THEN SemverErr
    ELSE SemverMinor(ma.val, NumericIdentifier(d1.rest))

SemverParse(text) ==
    SemverMajorDot(NumericIdentifier(text), ParseDot(NumericIdentifier(text)))

\* variant: no retry with "0" segments added, the strict parse only
parse_with_fallback_strict_only(input) == SemverParse(input)

\* variant: the padded retry is made whatever the number of segments
parse_with_fallback_no_segment_check(input) ==
    LET strict == SemverParse(input)
    IN  IF strict.ok THEN strict
        ELSE IF contains(input, {"-", "+"}) THEN SemverErr
        ELSE SemverParse(join(resize(split(input, "."), 3, <<"0">>), <<".">>))

\* Version::parse_with_fallback
parse_with_fallback(input) ==
    LET strict == SemverParse(input)
    IN  IF strict.ok THEN strict
        ELSE IF contains(input, {"-", "+"}) THEN SemverErr
        ELSE LET segments == split(input, ".")
             IN  IF Len(segments) >= 3 THEN SemverErr
                 ELSE SemverParse(join(resize(segments, 3, <<"0">>), <<".">>))

\* impl FromStr for Version
from_str(raw) ==
    LET trimmed == trim(raw)
    IN  IF trimmed = <<>> THEN SemverOk(VersionZero)
        ELSE parse_with_fallback(trimmed)

\* Version::parse: input.and_then(|raw| from_str(raw).ok()).unwrap_or_else(zero)
parse(input) ==
    IF IsSome(input) /\ from_str(Unwrap(input)).ok
    THEN from_str(Unwrap(input)).version
    ELSE VersionZero

\* impl Display for Version (to_string)
to_string(v) ==
    IF v.patch > 0
    THEN ToDigits(v.major) \o <<".">> \o ToDigits(v.minor) \o <<".">> \o ToDigits(v.patch)
    ELSE ToDigits(v.major) \o <<".">> \o ToDigits(v.minor)

(***************************************************************************)
(* Data model (expression.rs, time.rs, note.rs, part.rs, track.rs)         *)
(***************************************************************************)
F64(x) == [nan |-> FALSE, v |-> x]

NaN == [nan |-> TRUE, v |-> 0]

\* f64 `x > 0.0`: false for NaN
F64GtZero(x) == ~x.nan /\ x.v > 0

ExpressionDescriptor(name, abbr, max) ==
    [name |-> name, abbr |-> abbr, type |-> "numerical", min |-> 0, max |-> max,
     default_value |-> 0, is_flag |-> FALSE, flag |-> None, options |-> <<>>]

Expression(abbr, value) == [index |-> None, abbr |-> abbr, value |-> value]

Curve(abbr) == [abbr |-> abbr, xs |-> <<0, 10>>, ys |-> <<5, 7>>]

Tempo(position, bpm) == [position |-> position, bpm |-> bpm]

TimeSignature(bar_position, beat_per_bar, beat_unit) ==
    [bar_position |-> bar_position, beat_per_bar |-> beat_per_bar, beat_unit |-> beat_unit]

Note(position, lyric, phoneme_expressions) ==
    [position |-> position, duration |-> 120, tone |-> 60, lyric |-> lyric,
     phoneme_expressions |-> phoneme_expressions]

VoicePart(name, notes, curves) ==
    [name |-> name, comment |-> "", track_no |-> 0, position |-> 0,
     notes |-> notes, curves |-> curves]

WavePart(name) == [name |-> name, comment |-> "", track_no |-> 0, position |-> 0,
                   relative_path |-> "a.wav"]

Track(track_expressions) == [track_name |-> "New Track", track_expressions |-> track_expressions]

default_tempos == <<Tempo(0, F64(120))>>

default_time_signatures == <<TimeSignature(0, 4, 4)>>

default_exp_selectors ==
    <<"dyn", "pitd", "clr", "eng", "vel", "vol", "atk", "dec", "gen", "bre">>

OLD_ACCENT_ABBR == "acc"

NEW_ACCENT_ABBR == "atk"

NEW_ACCENT_NAME == "attack"

DEFAULT_SELECTORS ==
    <<"dyn", "pitd", "clr", "eng", "vel", "vol", "atk", "dec", "gen", "bre">>

\* the marker rewritten by convert_pre_0_5 and its replacement
LyricMarker == <<".", ".", ".">>

LyricPlus == <<"+">>

(***************************************************************************)
(* BTreeMap<String, ExpressionDescriptor> as a function on its key set     *)
(***************************************************************************)
MapContains(m, k) == k \in DOMAIN m

MapRemove(m, k) == [x \in (DOMAIN m) \ {k} |-> m[x]]

MapInsert(m, k, v) == [x \in (DOMAIN m) \cup {k} |-> IF x = k THEN v ELSE m[x]]

(***************************************************************************)
(* Migration steps (project.rs, second impl block)                         *)
(***************************************************************************)
\* the innermost loop body of convert_pre_0_4
rename_expression(expression) ==
    IF expression.abbr = OLD_ACCENT_ABBR
    THEN [expression EXCEPT !.abbr = NEW_ACCENT_ABBR]
    ELSE expression

rename_note(note) ==
    [note EXCEPT !.phoneme_expressions =
        [k \in 1..Len(@) |-> rename_expression(@[k])]]

\* variant: the curves of the part are renamed as well
rename_part_with_curves(part) ==
    [part EXCEPT !.notes = [j \in 1..Len(@) |-> rename_note(@[j])],
                 !.curves = [c \in 1..Len(@) |-> rename_expression(@[c])]]

rename_part(part) ==
    [part EXCEPT !.notes = [j \in 1..Len(@) |-> rename_note(@[j])]]

\* variant: the legacy entry is matched by its key alone
convert_pre_0_4_key_only(p) ==
    IF ~MapContains(p.expressions, OLD_ACCENT_ABBR)
    THEN p
    ELSE LET descriptor == [p.expressions[OLD_ACCENT_ABBR] EXCEPT
                               !.abbr = NEW_ACCENT_ABBR, !.name = NEW_ACCENT_NAME]
         IN  [p EXCEPT
                !.expressions = MapInsert(MapRemove(@, OLD_ACCENT_ABBR),
                                          NEW_ACCENT_ABBR, descriptor),
                !.voice_parts = [i \in 1..Len(@) |-> rename_part(@[i])]]

convert_pre_0_4(p) ==
    IF \/ ~MapContains(p.expressions, OLD_ACCENT_ABBR)
       \/ p.expressions[OLD_ACCENT_ABBR].name # "accent"
    THEN p
    ELSE LET descriptor == [p.expressions[OLD_ACCENT_ABBR] EXCEPT
                               !.abbr = NEW_ACCENT_ABBR, !.name = NEW_ACCENT_NAME]
         IN  [p EXCEPT
                !.expressions = MapInsert(MapRemove(@, OLD_ACCENT_ABBR),
                                          NEW_ACCENT_ABBR, descriptor),
                !.voice_parts = [i \in 1..Len(@) |-> rename_part(@[i])]]

\* the loop body of convert_pre_0_5
rewrite_lyric(note) ==
    IF starts_with(note.lyric, LyricMarker)
    THEN [note EXCEPT !.lyric = str_replace(@, LyricMarker, LyricPlus)]
    ELSE note

rewrite_part(part) ==
    [part EXCEPT !.notes = [j \in 1..Len(@) |-> rewrite_lyric(@[j])]]

convert_pre_0_5(p) ==
    [p EXCEPT !.voice_parts = [i \in 1..Len(@) |-> rewrite_part(@[i])]]

\* variant: the timing lists are filled only when they are empty
convert_pre_0_6_keep_existing(p) ==
    LET beat_per_bar == IF p.beat_per_bar > 0 THEN p.beat_per_bar ELSE 4
        beat_unit    == IF p.beat_unit > 0 THEN p.beat_unit ELSE 4
        bpm          == IF F64GtZero(p.bpm) THEN p.bpm ELSE F64(120)
    IN  [p EXCEPT !.time_signatures =
                      IF @ = <<>> THEN <<TimeSignature(0, beat_per_bar, beat_unit)>> ELSE @,
                  !.tempos = IF @ = <<>> THEN <<Tempo(0, bpm)>> ELSE @]

\* variant: the entries at position 0 are pushed onto the existing lists
convert_pre_0_6_push(p) ==
    LET beat_per_bar == IF p.beat_per_bar > 0 THEN p.beat_per_bar ELSE 4
        beat_unit    == IF p.beat_unit > 0 THEN p.beat_unit ELSE 4
        bpm          == IF F64GtZero(p.bpm) THEN p.bpm ELSE F64(120)
    IN  [p EXCEPT !.time_signatures =
                      Append(@, TimeSignature(0, beat_per_bar, beat_unit)),
                  !.tempos = Append(@, Tempo(0, bpm))]

convert_pre_0_6(p) ==
    LET beat_per_bar == IF p.beat_per_bar > 0 THEN p.beat_per_bar ELSE 4
        beat_unit    == IF p.beat_unit > 0 THEN p.beat_unit ELSE 4
        bpm          == IF F64GtZero(p.bpm) THEN p.bpm ELSE F64(120)
    IN  [p EXCEPT !.time_signatures = <<TimeSignature(0, beat_per_bar, beat_unit)>>,
                  !.tempos = <<Tempo(0, bpm)>>]

\* variant: the missing entries are appended from the start of the defaults
convert_pre_0_7_append(p) ==
    IF Len(p.exp_selectors) >= Len(DEFAULT_SELECTORS) THEN p
    ELSE [p EXCEPT !.exp_selectors =
             @ \o Take(DEFAULT_SELECTORS, Len(DEFAULT_SELECTORS) - Len(@))]

convert_pre_0_7(p) ==
    IF Len(p.exp_selectors) >= Len(DEFAULT_SELECTORS) THEN p
    ELSE [p EXCEPT !.exp_selectors =
             [i \in 1..Len(DEFAULT_SELECTORS) |->
                 IF i <= Len(p.exp_selectors) THEN p.exp_selectors[i]
                 ELSE DEFAULT_SELECTORS[i]]]

(***************************************************************************)
(* Results                                                                 *)
(***************************************************************************)
Ok == [ok |-> TRUE, err |-> "", version |-> <<>>, text |-> None]

\* to_yaml_string's Ok(String)
OkText(doc) == [ok |-> TRUE, err |-> "", version |-> <<>>, text |-> Some(doc)]

\* Error::unsupported_version(version.to_string())
unsupported_version(version) ==
    [ok |-> FALSE, err |-> "UnsupportedVersion", version |-> version, text |-> None]

\* Error::Yaml
YamlError == [ok |-> FALSE, err |-> "Yaml", version |-> <<>>, text |-> None]

(***************************************************************************)
(* Project::convert_to                                                     *)
(***************************************************************************)
detected_version(p) ==
    IF IsSome(p.ustx_version) THEN Unwrap(p.ustx_version) ELSE VersionZero

\* variant: the gate written with `target > threshold`
crosses_strict_target(detected, target, threshold) ==
    VersionLt(detected, threshold) /\ VersionGt(target, threshold)

\* the gate of one step: detected < threshold && target >= threshold
crosses(detected, target, threshold) ==
    VersionLt(detected, threshold) /\ VersionGe(target, threshold)

\* variant: the gate of the 0.5 step tests VERSION_0_6
run_steps_pasted_gate(p, detected, target) ==
    LET g4 == crosses(detected, target, VERSION_0_4)
        g5 == crosses(detected, target, VERSION_0_6)
        g6 == crosses(detected, target, VERSION_0_6)
        g7 == crosses(detected, target, VERSION_0_7)
        p4 == IF g4 THEN convert_pre_0_4(p) ELSE p
        p5 == IF g5 THEN convert_pre_0_5(p4) ELSE p4
        p6 == IF g6 THEN convert_pre_0_6(p5) ELSE p5
        p7 == IF g7 THEN convert_pre_0_7(p6) ELSE p6
    IN  [project |-> p7,
         steps |-> (IF g4 THEN <<"convert_pre_0_4">> ELSE <<>>)
                   \o (IF g5 THEN <<"convert_pre_0_5">> ELSE <<>>)
                   \o (IF g6 THEN <<"convert_pre_0_6">> ELSE <<>>)
                   \o (IF g7 THEN <<"convert_pre_0_7">> ELSE <<>>)]

\* the four gated steps in source order; `steps` lists the ones that ran
run_steps(p, detected, target) ==
    LET g4 == crosses(detected, target, VERSION_0_4)
        g5 == crosses(detected, target, VERSION_0_5)
        g6 == crosses(detected, target, VERSION_0_6)
        g7 == crosses(detected, target, VERSION_0_7)
        p4 == IF g4 THEN convert_pre_0_4(p) ELSE p
        p5 == IF g5 THEN convert_pre_0_5(p4) ELSE p4
        p6 == IF g6 THEN convert_pre_0_6(p5) ELSE p5
        p7 == IF g7 THEN convert_pre_0_7(p6) ELSE p6
    IN  [project |-> p7,
         steps |-> (IF g4 THEN <<"convert_pre_0_4">> ELSE <<>>)
                   \o (IF g5 THEN <<"convert_pre_0_5">> ELSE <<>>)
                   \o (IF g6 THEN <<"convert_pre_0_6">> ELSE <<>>)
                   \o (IF g7 THEN <<"convert_pre_0_7">> ELSE <<>>)]

\* variant: the detected >= target branch returns Ok without the stamp
convert_to_no_floor_stamp(p, target) ==
    LET detected == detected_version(p)
    IN  IF VersionGt(target, CURRENT_VERSION)
        THEN [ret |-> unsupported_version(to_string(target)), project |-> p, log |-> <<>>]
        ELSE IF VersionGt(detected, CURRENT_VERSION)
        THEN [ret |-> unsupported_version(to_string(detected)), project |-> p, log |-> <<>>]
        ELSE IF VersionGe(detected, target)
        THEN [ret |-> Ok, project |-> p, log |-> <<>>]
        ELSE LET r == run_steps(p, detected, target)
             IN  [ret |-> Ok,
                  project |-> [r.project EXCEPT !.ustx_version = Some(target)],
                  log |-> r.steps \o <<"stamp">>]

\* variant: the check of the detected version against CURRENT_VERSION is
\* missing
convert_to_no_detected_check(p, target) ==
    LET detected == detected_version(p)
    IN  IF VersionGt(target, CURRENT_VERSION)
        THEN [ret |-> unsupported_version(to_string(target)), project |-> p, log |-> <<>>]
        ELSE IF VersionGe(detected, target)
        THEN [ret |-> Ok, project |-> [p EXCEPT !.ustx_version = Some(target)],
              log |-> <<"stamp">>]
        ELSE LET r == run_steps(p, detected, target)
             IN  [ret |-> Ok,
                  project |-> [r.project EXCEPT !.ustx_version = Some(target)],
                  log |-> r.steps \o <<"stamp">>]

\* variant: every step up to the target runs, whatever version was detected
convert_to_ignore_detected(p, target) ==
    LET detected == detected_version(p)
    IN  IF VersionGt(target, CURRENT_VERSION)
        THEN [ret |-> unsupported_version(to_string(target)), project |-> p, log |-> <<>>]
        ELSE IF VersionGt(detected, CURRENT_VERSION)
        THEN [ret |-> unsupported_version(to_string(detected)), project |-> p, log |-> <<>>]
        ELSE LET r == run_steps(p, VersionZero, target)
             IN  [ret |-> Ok,
                  project |-> [r.project EXCEPT !.ustx_version = Some(target)],
                  log |-> r.steps \o <<"stamp">>]

\* variant: the detected version is checked before the target
convert_to_detected_first(p, target) ==
    LET detected == detected_version(p)
    IN  IF VersionGt(detected, CURRENT_VERSION)
        THEN [ret |-> unsupported_version(to_string(detected)), project |-> p, log |-> <<>>]
        ELSE IF VersionGt(target, CURRENT_VERSION)
        THEN [ret |-> unsupported_version(to_string(target)), project |-> p, log |-> <<>>]
        ELSE IF VersionGe(detected, target)
        THEN [ret |-> Ok, project |-> [p EXCEPT !.ustx_version = Some(target)],
              log |-> <<"stamp">>]
        ELSE LET r == run_steps(p, detected, target)
             IN  [ret |-> Ok,
                  project |-> [r.project EXCEPT !.ustx_version = Some(target)],
                  log |-> r.steps \o <<"stamp">>]

\* returns the Result, the project as the call leaves it, and the order of
\* the mutations made (steps, then "stamp" for the ustx_version write)
convert_to(p, target) ==
    LET detected == detected_version(p)
    IN  IF VersionGt(target, CURRENT_VERSION)
        THEN [ret |-> unsupported_version(to_string(target)), project |-> p, log |-> <<>>]
        ELSE IF VersionGt(detected, CURRENT_VERSION)
        THEN [ret |-> unsupported_version(to_string(detected)), project |-> p, log |-> <<>>]
        ELSE IF VersionGe(detected, target)
        THEN [ret |-> Ok, project |-> [p EXCEPT !.ustx_version = Some(target)],
              log |-> <<"stamp">>]
        ELSE LET r == run_steps(p, detected, target)
             IN  [ret |-> Ok,
                  project |-> [r.project EXCEPT !.ustx_version = Some(target)],
                  log |-> r.steps \o <<"stamp">>]

(***************************************************************************)
(* Documents.  A document is the decoded YAML mapping: the fields whose    *)
(* absence the model exercises are Options (None = key not in the          *)
(* document), ustx_version holds the scalar's text.                        *)
(***************************************************************************)
\* #[serde(default, skip_serializing_if = "Option::is_none")] ustx_version,
\* with impl Deserialize for Version
decode_version(field) ==
    IF IsSome(field) THEN from_str(Unwrap(field)) ELSE SemverOk(VersionZero)

\* #[serde(default = "...")] on a field
or_default(field, default) == IF IsSome(field) THEN Unwrap(field) ELSE default

\* Project::from_yaml_str
from_yaml_str(doc) ==
    IF ~decode_version(doc.ustx_version).ok
    THEN [ret |-> YamlError, project |-> None]
    ELSE [ret |-> Ok,
          project |-> Some([doc EXCEPT
              !.ustx_version = IF IsSome(@)
                               THEN Some(decode_version(@).version) ELSE None,
              !.exp_selectors = or_default(@, default_exp_selectors),
              !.time_signatures = or_default(@, default_time_signatures),
              !.tempos = or_default(@, default_tempos)])]

\* variant: without skip_serializing_if an unset version is written as the
\* zero version
encode_version_placeholder(v) ==
    IF IsSome(v) THEN Some(to_string(Unwrap(v))) ELSE Some(to_string(VersionZero))

\* impl Serialize for Version, and skip_serializing_if on the field
encode_version(v) == IF IsSome(v) THEN Some(to_string(Unwrap(v))) ELSE None

\* Project::to_yaml_string
to_yaml_string(p) ==
    OkText([p EXCEPT !.ustx_version = encode_version(@),
                     !.exp_selectors = Some(@),
                     !.time_signatures = Some(@),
                     !.tempos = Some(@)])

\* Project::from_yaml_str_with_compat
from_yaml_str_with_compat(doc) ==
    LET parsed == from_yaml_str(doc)
    IN  IF ~parsed.ret.ok THEN parsed
        ELSE LET c == convert_to(Unwrap(parsed.project), CURRENT_VERSION)
             IN  IF ~c.ret.ok THEN [ret |-> c.ret, project |-> None]
                 ELSE [ret |-> Ok, project |-> Some(c.project)]

\* Project::to_yaml_string_with_compat
to_yaml_string_with_compat(p) ==
    LET c == convert_to(p, CURRENT_VERSION)
    IN  IF ~c.ret.ok THEN c.ret ELSE to_yaml_string(c.project)

(***************************************************************************)
(* Inputs                                                                  *)
(***************************************************************************)
VersionSet ==
    {VersionZero}
    \cup {Version(0, m, 0) : m \in 3..MaxMinor}
    \cup {Version(0, m, p) : m \in {4, 7}, p \in 1..MaxPatch}
    \cup {Version(M, 0, 0) : M \in 1..MaxMajor}

Targets == VersionSet

\* how a producer writes a version: "major.minor", or "major.minor.patch"
WrittenText(v) ==
    ToDigits(v.major) \o <<".">> \o ToDigits(v.minor)
    \o (IF v.patch = 0 THEN <<>> ELSE <<".">> \o ToDigits(v.patch))

FullText(v) ==
    ToDigits(v.major) \o <<".">> \o ToDigits(v.minor) \o <<".">> \o ToDigits(v.patch)

\* version scalars of documents: absent, every version as written, and a
\* full three-component form, an empty scalar, a bare major, a padded
\* scalar and two scalars Version::from_str rejects
DocVersions ==
    {None}
    \cup {Some(WrittenText(v)) : v \in VersionSet}
    \cup {Some(FullText(Version(0, 3, 0))), Some(FullText(Version(0, 8, 0))),
          Some(<<>>), Some(<<"7">>), Some(<<" ", "0", ".", "6", "\n">>),
          Some(<<"0", ".", "8", "-", "r", "c">>), Some(<<"0", ".", "0", "5", ".", "1">>)}

AccentDescriptor == ExpressionDescriptor("accent", "acc", 100)

DocExpressions ==
    { <<>>,
      [k \in {"acc", "dyn"} |-> IF k = "acc" THEN AccentDescriptor
                                ELSE ExpressionDescriptor("dynamics", "dyn", 240)],
      [k \in {"acc"} |-> ExpressionDescriptor("accel", "acc", 50)],
      [k \in {"acc", "atk"} |-> IF k = "acc" THEN AccentDescriptor
                                ELSE ExpressionDescriptor("attack time", "atk", 9)] }

Lyric_ka_ta == <<".", ".", ".", "k", "a", ".", ".", ".", "t", "a">>

DocVoiceParts ==
    { <<VoicePart("A",
                  <<Note(0, Lyric_ka_ta, <<Expression("acc", 3)>>),
                    Note(120, <<"k", "a", ".", ".", ".">>, <<>>)>>,
                  <<Curve("acc")>>)>>,
      <<VoicePart("B",
                  <<Note(0, <<".", ".", ".", ".">>,
                         <<Expression("dyn", 1), Expression("acc", 2), Expression("acc", 4)>>)>>,
                  <<>>),
        VoicePart("C",
                  <<Note(0, <<"+", "a">>, <<Expression("atk", 7)>>),
                    Note(60, <<".", ".", ".", ".", ".", ".", ".", "a", ".", ".">>, <<>>),
                    Note(90, <<".", ".", "a">>, <<Expression("acc", 0)>>)>>,
                  <<Curve("dyn"), Curve("acc")>>)>> }

\* (bpm, beat_per_bar, beat_unit)
DocScalars ==
    { <<F64(0), 3, 8>>, <<F64(90), 6, 8>>, <<NaN, 0, -2>> }

DocTempos ==
    { None, Some(<<>>), Some(<<Tempo(0, F64(100)), Tempo(480, F64(140))>>) }

DocTimeSignatures ==
    { None, Some(<<>>), Some(<<TimeSignature(0, 3, 4), TimeSignature(4, 6, 8)>>) }

DocSelectors ==
    { Some(<<>>), Some(<<"vel", "dyn">>),
      Some(<<"bre", "gen", "dec", "atk", "vol", "vel", "eng", "clr", "pitd", "dyn", "mod">>) }

Document(version, expressions, voice_parts, scalars, tempos, time_signatures, selectors) ==
    [name |-> "Demo", comment |-> "sample", output_dir |-> "Vocal", cache_dir |-> "UCache",
     ustx_version |-> version, resolution |-> 480,
     bpm |-> scalars[1], beat_per_bar |-> scalars[2], beat_unit |-> scalars[3],
     expressions |-> expressions, exp_selectors |-> selectors,
     exp_primary |-> 0, exp_secondary |-> 1, key |-> 0,
     time_signatures |-> time_signatures, tempos |-> tempos,
     tracks |-> <<Track(<<Expression("acc", 5)>>)>>,
     voice_parts |-> voice_parts,
     wave_parts |-> <<WavePart("W")>>]

\* tempos and time_signatures are present or absent together in the inputs
Docs ==
    { Document(v, e, vp, sc, tl[1], tl[2], sel) :
        v \in DocVersions, e \in DocExpressions, vp \in DocVoiceParts,
        sc \in DocScalars,
        tl \in {x \in DocTempos \X DocTimeSignatures : Len(x[1]) = Len(x[2])},
        sel \in DocSelectors }

(***************************************************************************)
(* State machine: one Project value and the record of the last call        *)
(***************************************************************************)
\* src: where the text handed to a decode came from
NoArg == [target |-> None, doc |-> None, src |-> "none"]

NoProject ==
    /\ project = None
    /\ before = None
    /\ op = "init"
    /\ arg = NoArg
    /\ ret = Ok
    /\ log = <<>>

NoVersion ==
    /\ vValue = VersionZero
    /\ vText = None
    /\ vParsed = None

Init == NoProject /\ NoVersion

DecodeSource == IF op = "init" THEN "input" ELSE op

Encoded == op \in {"to_yaml_string", "to_yaml_string_with_compat"} /\ ret.ok

\* the texts a decode can be handed: a document of the input set for the
\* first decode, the text just written for a decode after an encode
DecodeInputs ==
    IF op = "init" THEN Docs
    ELSE IF Encoded THEN {Unwrap(ret.text)}
    ELSE {}

FromYamlStr ==
    \E doc \in DecodeInputs :
        LET r == from_yaml_str(doc)
        IN  /\ project' = r.project
            /\ before' = project
            /\ op' = "from_yaml_str"
            /\ arg' = [target |-> None, doc |-> Some(doc), src |-> DecodeSource]
            /\ ret' = r.ret
            /\ log' = <<>>
            /\ UNCHANGED versionVars

FromYamlStrWithCompat ==
    \E doc \in DecodeInputs :
        LET r == from_yaml_str_with_compat(doc)
        IN  /\ project' = r.project
            /\ before' = project
            /\ op' = "from_yaml_str_with_compat"
            /\ arg' = [target |-> None, doc |-> Some(doc), src |-> DecodeSource]
            /\ ret' = r.ret
            /\ log' = <<>>
            /\ UNCHANGED versionVars

ConvertTo ==
    /\ IsSome(project)
    /\ \E target \in Targets :
        LET r == convert_to(Unwrap(project), target)
        IN  /\ project' = Some(r.project)
            /\ before' = project
            /\ op' = "convert_to"
            /\ arg' = [target |-> Some(target), doc |-> None, src |-> "none"]
            /\ ret' = r.ret
            /\ log' = r.log
            /\ UNCHANGED versionVars

ToYamlString ==
    /\ IsSome(project)
    /\ project' = project
    /\ before' = project
    /\ op' = "to_yaml_string"
    /\ arg' = NoArg
    /\ ret' = to_yaml_string(Unwrap(project))
    /\ log' = <<>>
    /\ UNCHANGED versionVars

ToYamlStringWithCompat ==
    /\ IsSome(project)
    /\ project' = project
    /\ before' = project
    /\ op' = "to_yaml_string_with_compat"
    /\ arg' = NoArg
    /\ ret' = to_yaml_string_with_compat(Unwrap(project))
    /\ log' = <<>>
    /\ UNCHANGED versionVars

Next ==
    \/ FromYamlStr
    \/ FromYamlStrWithCompat
    \/ ConvertTo
    \/ ToYamlString
    \/ ToYamlStringWithCompat

Spec == Init /\ [][Next]_vars

(***************************************************************************)
(* Version text round trip: a Version value is displayed, the text parsed  *)
(***************************************************************************)
VersionValues ==
    {Version(a, b, c) : a \in 0..MaxComp, b \in 0..MaxComp, c \in 0..MaxComp}

InitVersion ==
    /\ NoProject
    /\ vValue \in VersionValues
    /\ vText = None
    /\ vParsed = None

DisplayVersion ==
    /\ vText = None
    /\ vText' = Some(to_string(vValue))
    /\ UNCHANGED <<vValue, vParsed>>
    /\ UNCHANGED projectVars

ParseVersion ==
    /\ IsSome(vText)
    /\ vParsed = None
    /\ vParsed' = Some(from_str(Unwrap(vText)))
    /\ UNCHANGED <<vValue, vText>>
    /\ UNCHANGED projectVars

NextVersion ==
    \/ DisplayVersion
    \/ ParseVersion

SpecVersion == InitVersion /\ [][NextVersion]_vars

(***************************************************************************)
(* Version texts: an arbitrary text, or no text, is given to from_str or   *)
(* to Version::parse                                                       *)
(***************************************************************************)
TextChars == {"0", "1", "7", ".", "-", "+", " ", "x"}

ShortTexts == UNION {[1..n -> TextChars] : n \in 0..MaxTextLen}

LongTexts ==
    { <<"0", ".", "3", ".", "0">>,
      <<"1", ".", "0", ".", "7", "-", "x">>,
      <<"1", ".", "0", ".", "7", "+", "x">>,
      <<"1", ".", "0", ".", "7", "-", "0", "1">>,
      <<"1", ".", "0", ".", "7", ".", "1">>,
      <<"1", ".", "x", ".", "0">>,
      <<"1", "0", ".", "1", "1">>,
      <<" ", "0", ".", "7", ".", "1", "\n">>,
      <<"0", "1", ".", "1", ".", "1">> }

TextInputs == {None} \cup {Some(t) : t \in ShortTexts \cup LongTexts}

InitText ==
    /\ NoProject
    /\ vValue = VersionZero
    /\ vText \in TextInputs
    /\ vParsed = None

FromStrText ==
    /\ op = "init"
    /\ IsSome(vText)
    /\ vParsed' = Some(from_str(Unwrap(vText)))
    /\ op' = "from_str"
    /\ UNCHANGED <<vValue, vText>>
    /\ UNCHANGED <<project, before, arg, ret, log>>

ParseText ==
    /\ op = "init"
    /\ vValue' = parse(vText)
    /\ op' = "parse"
    /\ UNCHANGED <<vText, vParsed>>
    /\ UNCHANGED <<project, before, arg, ret, log>>

NextText ==
    \/ FromStrText
    \/ ParseText

SpecText == InitText /\ [][NextText]_vars

(***************************************************************************)
(* Properties.  The vocabulary below is stated without the operators of    *)
(* the model: versions are ordered by a numeric key.                       *)
(***************************************************************************)
P == Unwrap(project)

B == Unwrap(before)

T == Unwrap(arg.target)

VersionKey(v) == v.major * 10000 + v.minor * 100 + v.patch

Lower(a, b) == VersionKey(a) < VersionKey(b)

AtMost(a, b) == VersionKey(a) <= VersionKey(b)

Current == Version(0, 7, 0)

DetectedOf(p) == IF p.ustx_version = <<>> THEN Version(0, 0, 0) ELSE p.ustx_version[1]

Called == op = "convert_to"

Converted == op = "convert_to" /\ ret.ok

\* the last call was a successful convert_to that crossed `threshold`
Crossed(threshold) ==
    /\ Converted
    /\ Lower(DetectedOf(B), threshold)
    /\ AtMost(threshold, T)

Unsupported == ~ret.ok /\ ret.err = "UnsupportedVersion"

\* C1: whenever convert_to(target) returns Ok, ustx_version is Some(target)
\* afterwards (forward path or stamp-only path); after a successful
\* from_yaml_str_with_compat it is Some(CURRENT_VERSION).
Thm_C1 ==
    /\ Converted => P.ustx_version = <<T>>
    /\ (op = "from_yaml_str_with_compat" /\ ret.ok) => P.ustx_version = <<Current>>

\* a stamp-only call that lowered the stamp of a project
Wit_C1 ==
    /\ Converted
    /\ log = <<"stamp">>
    /\ Lower(T, DetectedOf(B))
    /\ P.ustx_version = <<T>>

\* C2: convert_to returns the unsupported-version error whenever the target
\* or the detected version is above CURRENT_VERSION, and then the project is
\* exactly as it was before the call.
Thm_C2 ==
    (Called /\ (Lower(Current, T) \/ Lower(Current, DetectedOf(B))))
        => (Unsupported /\ project = before)

\* a supported target refused because of the document's own version
Wit_C2 ==
    /\ Called
    /\ AtMost(T, Current)
    /\ Lower(Current, DetectedOf(B))
    /\ Unsupported
    /\ project = before

\* C3: with detected <= CURRENT_VERSION and target <= detected, convert_to
\* succeeds and changes only ustx_version, which becomes Some(target).
Thm_C3 ==
    (Called /\ AtMost(DetectedOf(B), Current) /\ AtMost(T, DetectedOf(B)))
        => (ret.ok /\ P = [B EXCEPT !.ustx_version = <<T>>])

\* a 0.7 project with legacy content stamped down below every threshold:
\* the legacy content is still there
Wit_C3 ==
    /\ Converted
    /\ DetectedOf(B) = Current
    /\ T = Version(0, 3, 0)
    /\ "acc" \in DOMAIN P.expressions
    /\ Len(P.exp_selectors) < 10
    /\ Len(P.tempos) # 1
    /\ \E i \in 1..Len(P.voice_parts) : \E j \in 1..Len(P.voice_parts[i].notes) :
          P.voice_parts[i].notes[j].lyric = Lyric_ka_ta

\* C4: for a <= b <= c <= CURRENT_VERSION and a project detected at a,
\* convert_to(c) gives the same project, in every field, as convert_to(b)
\* followed by convert_to(c).  The state holds the project after the first
\* leg (before -> project, target b); both continuations are computed.
Thm_C4 ==
    (Converted /\ AtMost(DetectedOf(B), T))
        => \A c \in Targets :
              (AtMost(T, c) /\ AtMost(c, Current))
                  => /\ convert_to(P, c).ret.ok
                     /\ convert_to(B, c).ret.ok
                     /\ convert_to(P, c).project = convert_to(B, c).project

\* a first leg from below 0.4 to exactly 0.5 that changed the content, with
\* steps left for a second leg
Wit_C4 ==
    /\ Converted
    /\ log = <<"convert_pre_0_4", "convert_pre_0_5", "stamp">>
    /\ T = Version(0, 5, 0)
    /\ P.expressions # B.expressions
    /\ P.voice_parts # B.voice_parts
    /\ convert_to(P, Current).project # P

\* the phoneme expressions of note j of voice part i
PhonemeExpressions(p, i, j) == p.voice_parts[i].notes[j].phoneme_expressions

SameShape(p, q) ==
    /\ Len(p.voice_parts) = Len(q.voice_parts)
    /\ \A i \in 1..Len(p.voice_parts) :
          /\ Len(p.voice_parts[i].notes) = Len(q.voice_parts[i].notes)
          /\ \A j \in 1..Len(p.voice_parts[i].notes) :
                Len(PhonemeExpressions(p, i, j)) = Len(PhonemeExpressions(q, i, j))

HasLegacyAccent(p) ==
    "acc" \in DOMAIN p.expressions /\ p.expressions["acc"].name = "accent"

\* C5: crossing 0.4 with the legacy entry ("acc" named "accent"): the key
\* "acc" is gone, "atk" holds that descriptor with abbr "atk" and name
\* "attack", and every phoneme expression that had abbr "acc" has abbr "atk".
\* Without the legacy entry neither the mapping nor any phoneme expression
\* changes.
Thm_C5 ==
    Crossed(Version(0, 4, 0)) =>
        /\ SameShape(P, B)
        /\ HasLegacyAccent(B) =>
              /\ "acc" \notin DOMAIN P.expressions
              /\ "atk" \in DOMAIN P.expressions
              /\ P.expressions["atk"] =
                    [B.expressions["acc"] EXCEPT !.abbr = "atk", !.name = "attack"]
              /\ \A i \in 1..Len(B.voice_parts) :
                    \A j \in 1..Len(B.voice_parts[i].notes) :
                       \A k \in 1..Len(PhonemeExpressions(B, i, j)) :
                          PhonemeExpressions(B, i, j)[k].abbr = "acc"
                              => PhonemeExpressions(P, i, j)[k].abbr = "atk"
        /\ ~HasLegacyAccent(B) =>
              /\ P.expressions = B.expressions
              /\ \A i \in 1..Len(B.voice_parts) :
                    \A j \in 1..Len(B.voice_parts[i].notes) :
                       PhonemeExpressions(P, i, j) = PhonemeExpressions(B, i, j)

\* the legacy entry renamed together with a note's "acc" expression
Wit_C5 ==
    /\ Crossed(Version(0, 4, 0))
    /\ HasLegacyAccent(B)
    /\ "acc" \notin DOMAIN P.expressions
    /\ P.expressions["atk"].name = "attack"
    /\ \E i \in 1..Len(B.voice_parts) : \E j \in 1..Len(B.voice_parts[i].notes) :
          \E k \in 1..Len(PhonemeExpressions(B, i, j)) :
             /\ PhonemeExpressions(B, i, j)[k].abbr = "acc"
             /\ PhonemeExpressions(P, i, j)[k].abbr = "atk"

\* a lyric with every "..." taken out from the left and "+" put in its place
RECURSIVE AllReplaced(_)
AllReplaced(s) ==
    IF s = <<>> THEN <<>>
    ELSE IF Len(s) >= 3 /\ s[1] = "." /\ s[2] = "." /\ s[3] = "."
         THEN <<"+">> \o AllReplaced(SubSeq(s, 4, Len(s)))
         ELSE <<s[1]>> \o AllReplaced(SubSeq(s, 2, Len(s)))

BeginsWithMarker(s) == Len(s) >= 3 /\ s[1] = "." /\ s[2] = "." /\ s[3] = "."

\* C6: crossing 0.5, every lyric that begins with "..." has every
\* occurrence of "..." replaced by "+"; every other lyric is unchanged, even
\* with "..." later in it.
Thm_C6 ==
    Crossed(Version(0, 5, 0)) =>
        /\ SameShape(P, B)
        /\ \A i \in 1..Len(B.voice_parts) :
              \A j \in 1..Len(B.voice_parts[i].notes) :
                 LET old == B.voice_parts[i].notes[j].lyric
                     new == P.voice_parts[i].notes[j].lyric
                 IN  IF BeginsWithMarker(old) THEN new = AllReplaced(old)
                     ELSE new = old

\* "...ka...ta" became "+ka+ta" and "ka..." stayed
Wit_C6 ==
    /\ Crossed(Version(0, 5, 0))
    /\ Len(B.voice_parts) = 1
    /\ B.voice_parts[1].notes[1].lyric = <<".", ".", ".", "k", "a", ".", ".", ".", "t", "a">>
    /\ P.voice_parts[1].notes[1].lyric = <<"+", "k", "a", "+", "t", "a">>
    /\ B.voice_parts[1].notes[2].lyric = <<"k", "a", ".", ".", ".">>
    /\ P.voice_parts[1].notes[2].lyric = <<"k", "a", ".", ".", ".">>

Positive(x) == x.nan = FALSE /\ x.v > 0

\* C7: crossing 0.6, whatever the lists held, tempos is one entry (0, bpm or
\* 120.0) and time_signatures one entry (0, beat_per_bar or 4, beat_unit or
\* 4), the fallback applying to a scalar that is not > 0; the scalars
\* themselves are unchanged.
Thm_C7 ==
    Crossed(Version(0, 6, 0)) =>
        /\ P.tempos = <<[position |-> 0,
                         bpm |-> IF Positive(B.bpm) THEN B.bpm
                                 ELSE [nan |-> FALSE, v |-> 120]]>>
        /\ P.time_signatures =
              <<[bar_position |-> 0,
                 beat_per_bar |-> IF B.beat_per_bar > 0 THEN B.beat_per_bar ELSE 4,
                 beat_unit |-> IF B.beat_unit > 0 THEN B.beat_unit ELSE 4]>>
        /\ P.bpm = B.bpm
        /\ P.beat_per_bar = B.beat_per_bar
        /\ P.beat_unit = B.beat_unit

\* two tempo entries and an invalid bpm flattened to the single fallback
Wit_C7 ==
    /\ Crossed(Version(0, 6, 0))
    /\ Len(B.tempos) = 2
    /\ Len(B.time_signatures) = 2
    /\ B.bpm = [nan |-> FALSE, v |-> 0]
    /\ B.beat_per_bar = 3
    /\ P.tempos = <<[position |-> 0, bpm |-> [nan |-> FALSE, v |-> 120]]>>
    /\ P.time_signatures = <<[bar_position |-> 0, beat_per_bar |-> 3, beat_unit |-> 8]>>

Canonical == <<"dyn", "pitd", "clr", "eng", "vel", "vol", "atk", "dec", "gen", "bre">>

\* C8: crossing 0.7 with n selectors: for n < 10 the result has 10 entries,
\* the first n are the original ones in order and entry i >= n is the i-th
\* canonical default; for n >= 10 the list is unchanged.
Thm_C8 ==
    Crossed(Version(0, 7, 0)) =>
        LET n == Len(B.exp_selectors)
        IN  IF n < 10
            THEN /\ Len(P.exp_selectors) = 10
                 /\ \A i \in 1..n : P.exp_selectors[i] = B.exp_selectors[i]
                 /\ \A i \in (n + 1)..10 : P.exp_selectors[i] = Canonical[i]
            ELSE P.exp_selectors = B.exp_selectors

\* two non-canonical entries kept in place, eight defaults after them
Wit_C8 ==
    /\ Crossed(Version(0, 7, 0))
    /\ B.exp_selectors = <<"vel", "dyn">>
    /\ P.exp_selectors =
          <<"vel", "dyn", "clr", "eng", "vel", "vol", "atk", "dec", "gen", "bre">>

\* the content fields of a decoded project are those of the document
\* (a field absent from the document is not compared)
ContentAsWritten(p, doc) ==
    /\ p.expressions = doc.expressions
    /\ p.voice_parts = doc.voice_parts
    /\ p.bpm = doc.bpm
    /\ p.beat_per_bar = doc.beat_per_bar
    /\ p.beat_unit = doc.beat_unit
    /\ doc.exp_selectors # <<>> => p.exp_selectors = doc.exp_selectors[1]
    /\ doc.tempos # <<>> => p.tempos = doc.tempos[1]
    /\ doc.time_signatures # <<>> => p.time_signatures = doc.time_signatures[1]

\* C10: from_yaml_str and to_yaml_string never migrate and never return the
\* unsupported-version error, also for versions above CURRENT_VERSION;
\* after decode ustx_version is the version written in the document, or None
\* when the field is absent; a project with ustx_version None is written
\* without the field, and decoding that text gives None again.
Thm_C10 ==
    /\ op \in {"from_yaml_str", "to_yaml_string"} => ret.err # "UnsupportedVersion"
    /\ op = "from_yaml_str" =>
          LET doc == arg.doc[1]
          IN  /\ doc.ustx_version = <<>> => (ret.ok /\ P.ustx_version = <<>>)
              /\ \A v \in VersionSet :
                    doc.ustx_version \in {<<WrittenText(v)>>, <<FullText(v)>>}
                        => (ret.ok /\ P.ustx_version = <<v>>)
              /\ ret.ok => ContentAsWritten(P, doc)
              /\ (arg.src = "to_yaml_string" /\ B.ustx_version = <<>>)
                    => (ret.ok /\ P.ustx_version = <<>>)
    /\ op = "to_yaml_string" =>
          /\ ret.ok
          /\ project = before
          /\ ContentAsWritten(P, ret.text[1])
          /\ P.ustx_version = <<>> => ret.text[1].ustx_version = <<>>

\* a project without a version, with legacy content, written and read back
Wit_C10 ==
    /\ op = "from_yaml_str"
    /\ arg.src = "to_yaml_string"
    /\ ret.ok
    /\ B.ustx_version = <<>>
    /\ P.ustx_version = <<>>
    /\ P = B
    /\ "acc" \in DOMAIN P.expressions
    /\ Len(P.exp_selectors) = 2

\* C9: the displayed text of a Version is "major.minor" when patch is 0 and
\* "major.minor.patch" otherwise, and Version::from_str of the displayed
\* text gives the same triple.
Thm_C9 ==
    /\ vText # <<>> =>
          vText[1] = ToDigits(vValue.major) \o <<".">> \o ToDigits(vValue.minor)
                     \o (IF vValue.patch = 0 THEN <<>>
                         ELSE <<".">> \o ToDigits(vValue.patch))
    /\ vParsed # <<>> => (vParsed[1].ok /\ vParsed[1].version = vValue)

\* 10.0 displayed without its patch and parsed back through the fallback
Wit_C9 ==
    /\ vValue = Version(10, 0, 0)
    /\ vText = <<<<"1", "0", ".", "0">>>>
    /\ vParsed # <<>>
    /\ vParsed[1].ok
    /\ vParsed[1].version = vValue

\* the step of one threshold, by its name in the log
StepResult(name, p) ==
    CASE name = "convert_pre_0_4" -> convert_pre_0_4(p)
      [] name = "convert_pre_0_5" -> convert_pre_0_5(p)
      [] name = "convert_pre_0_6" -> convert_pre_0_6(p)
      [] name = "convert_pre_0_7" -> convert_pre_0_7(p)

\* the step of `threshold` is due exactly when detected < threshold <= target
StepDue(name, threshold, d, t) ==
    IF Lower(d, threshold) /\ AtMost(threshold, t) THEN <<name>> ELSE <<>>

\* the due steps in ascending order of their thresholds
StepsDue(d, t) ==
    StepDue("convert_pre_0_4", Version(0, 4, 0), d, t)
    \o StepDue("convert_pre_0_5", Version(0, 5, 0), d, t)
    \o StepDue("convert_pre_0_6", Version(0, 6, 0), d, t)
    \o StepDue("convert_pre_0_7", Version(0, 7, 0), d, t)

RECURSIVE StepsApplied(_, _)
StepsApplied(names, p) ==
    IF names = <<>> THEN p
    ELSE StepsApplied(Drop(names, 1), StepResult(names[1], p))

\* C11: on the forward path (detected < target <= CURRENT_VERSION) the step
\* of each threshold T in 0.4, 0.5, 0.6, 0.7 runs exactly when detected < T
\* and target >= T, each once, in ascending order of T, and ustx_version is
\* written only after the last step; an absent ustx_version counts as
\* 0.0.0, so converting such a project to 0.7 runs all four steps.
Thm_C11 ==
    (Converted /\ Lower(DetectedOf(B), T)) =>
        /\ AtMost(T, Current)
        /\ log = StepsDue(DetectedOf(B), T) \o <<"stamp">>
        /\ P = [StepsApplied(StepsDue(DetectedOf(B), T), B)
                    EXCEPT !.ustx_version = <<T>>]
        /\ (B.ustx_version = <<>> /\ T = Version(0, 7, 0)) =>
               log = <<"convert_pre_0_4", "convert_pre_0_5", "convert_pre_0_6",
                       "convert_pre_0_7", "stamp">>

\* a project without ustx_version converted to 0.7: four steps, then the
\* version write
Wit_C11 ==
    /\ Converted
    /\ B.ustx_version = <<>>
    /\ T = Version(0, 7, 0)
    /\ log = <<"convert_pre_0_4", "convert_pre_0_5", "convert_pre_0_6",
               "convert_pre_0_7", "stamp">>
    /\ P.ustx_version = <<T>>

\* C12: crossing 0.4 leaves every descriptor that is not the legacy entry
\* ("acc" named "accent") in the mapping under the same key with the same
\* contents, also a descriptor stored under "atk" in a project that has the
\* legacy entry.
Cex_C12 ==
    Crossed(Version(0, 4, 0)) =>
        \A k \in DOMAIN B.expressions :
            ~(k = "acc" /\ B.expressions[k].name = "accent") =>
                /\ k \in DOMAIN P.expressions
                /\ P.expressions[k] = B.expressions[k]

\* the project after convert_to(first), convert_to(second) in this order
After2(p, first, second) == convert_to(convert_to(p, first).project, second).project

\* C13: each of the four steps is idempotent (run on a project on which it
\* has already run, it changes nothing); so for d <= t <= CURRENT_VERSION
\* the calls convert_to(t), convert_to(d), convert_to(t) leave the project
\* equal to the result of the first convert_to(t).
Thm_C13 ==
    /\ project # <<>> =>
          \A name \in {"convert_pre_0_4", "convert_pre_0_5", "convert_pre_0_6",
                        "convert_pre_0_7"} :
              StepResult(name, StepResult(name, P)) = StepResult(name, P)
    /\ (Converted /\ AtMost(DetectedOf(B), T)) =>
          After2(P, DetectedOf(B), T) = P

\* the third call of such a sequence from below 0.4: the project had been
\* migrated and stamped down, every step runs again and the content is the
\* same
Wit_C13 ==
    /\ Converted
    /\ T = Version(0, 7, 0)
    /\ Lower(DetectedOf(B), Version(0, 4, 0))
    /\ "atk" \in DOMAIN B.expressions
    /\ B.expressions["atk"].name = "attack"
    /\ Len(B.exp_selectors) = 10
    /\ B.tempos = <<Tempo(0, F64(90))>>
    /\ \E i \in 1..Len(B.voice_parts) : \E j \in 1..Len(B.voice_parts[i].notes) :
          B.voice_parts[i].notes[j].lyric = <<"+", "k", "a", "+", "t", "a">>
    /\ Len(log) = 5
    /\ P = [B EXCEPT !.ustx_version = <<T>>]

\* the text without its leading and trailing white space
RECURSIVE Stripped(_)
Stripped(s) ==
    IF s # <<>> /\ s[1] \in {" ", "\n", "\t"} THEN Stripped(Drop(s, 1))
    ELSE IF s # <<>> /\ s[Len(s)] \in {" ", "\n", "\t"}
    THEN Stripped(Take(s, Len(s) - 1))
    ELSE s

\* the '.'-separated segments of a text
RECURSIVE Segments(_)
Segments(s) ==
    IF \E i \in 1..Len(s) : s[i] = "."
    THEN LET i == CHOOSE j \in 1..Len(s) : s[j] = "." /\ \A k \in 1..(j - 1) : s[k] # "."
         IN  <<SubSeq(s, 1, i - 1)>> \o Segments(SubSeq(s, i + 1, Len(s)))
    ELSE <<s>>

\* a decimal number as a strict component: digits, no leading zero
IsNumber(seg) ==
    /\ seg # <<>>
    /\ \A i \in 1..Len(seg) : seg[i] \in {"0", "1", "2", "3", "4", "5", "6", "7", "8", "9"}
    /\ Len(seg) > 1 => seg[1] # "0"

Padded(segs) == segs \o [i \in 1..(3 - Len(segs)) |-> <<"0">>]

TripleOf(segs) == Version(NumVal(segs[1]), NumVal(segs[2]), NumVal(segs[3]))

Parsed(v) == [ok |-> TRUE, version |-> v]

\* what from_str gives for the stripped text t, as C14 words it
FromStrOutcome(t) ==
    IF t = <<>> THEN Parsed(Version(0, 0, 0))
    ELSE IF Len(Segments(t)) = 3 /\ \A i \in 1..3 : IsNumber(Segments(t)[i])
    THEN Parsed(TripleOf(Segments(t)))
    ELSE IF SemverParse(t).ok THEN Parsed(SemverParse(t).version)
    ELSE IF \E i \in 1..Len(t) : t[i] \in {"-", "+"} THEN [ok |-> FALSE]
    ELSE IF Len(Segments(t)) < 3
    THEN IF \A i \in 1..Len(Segments(t)) : IsNumber(Segments(t)[i])
         THEN Parsed(TripleOf(Padded(Segments(t))))
         ELSE [ok |-> FALSE]
    ELSE [ok |-> FALSE]

\* C14: Version::from_str on the trimmed text: empty text gives 0.0.0; text
\* that parses strictly gives its triple; otherwise text with '-' or '+' is
\* an error; otherwise text with fewer than three segments is padded with
\* "0" segments and parsed strictly ("7" gives 7.0.0, "0.3" gives 0.3.0), a
\* failure being an error; otherwise it is an error.  Version::parse gives
\* the from_str result when it succeeds, 0.0.0 for no input or an error.
Thm_C14 ==
    /\ op = "from_str" =>
          LET want == FromStrOutcome(Stripped(vText[1]))
              got  == vParsed[1]
          IN  /\ got.ok = want.ok
              /\ want.ok => got.version = want.version
              /\ Stripped(vText[1]) = <<"7">> => (got.ok /\ got.version = Version(7, 0, 0))
              /\ Stripped(vText[1]) = <<"0", ".", "3">> =>
                    (got.ok /\ got.version = Version(0, 3, 0))
              /\ Len(Segments(Stripped(vText[1]))) > 3 => ~got.ok
    /\ op = "parse" =>
          vValue = IF vText # <<>> /\ FromStrOutcome(Stripped(vText[1])).ok
                   THEN FromStrOutcome(Stripped(vText[1])).version
                   ELSE Version(0, 0, 0)

\* "1.7" between spaces read by from_str through the padded retry
Wit_C14 ==
    /\ op = "from_str"
    /\ vText = <<<<" ", "1", ".", "7">>>>
    /\ vParsed[1].ok
    /\ vParsed[1].version = Version(1, 7, 0)

\* C15: the unsupported-version error of convert_to carries the displayed
\* text of the target when target > CURRENT_VERSION, and of the detected
\* version when target <= CURRENT_VERSION and detected > CURRENT_VERSION;
\* when both are above CURRENT_VERSION the target is the one reported.
Thm_C15 ==
    Called =>
        /\ Lower(Current, T) =>
              (Unsupported /\ ret.version = WrittenText(T))
        /\ (AtMost(T, Current) /\ Lower(Current, DetectedOf(B))) =>
              (Unsupported /\ ret.version = WrittenText(DetectedOf(B)))
        /\ ~ret.ok => (Lower(Current, T) \/ Lower(Current, DetectedOf(B)))

\* a project at 0.8 asked to convert to 1.0: the error names 1.0
Wit_C15 ==
    /\ Called
    /\ Unsupported
    /\ B.ustx_version = <<Version(0, 8, 0)>>
    /\ T = Version(1, 0, 0)
    /\ ret.version = <<"1", ".", "0">>

\* the project with everything a conversion may write blanked out
Frame(p) ==
    [p EXCEPT
        !.ustx_version = <<>>,
        !.expressions = <<>>,
        !.exp_selectors = <<>>,
        !.tempos = <<>>,
        !.time_signatures = <<>>,
        !.voice_parts = [i \in 1..Len(@) |->
            [@[i] EXCEPT !.notes = [j \in 1..Len(@) |->
                [@[j] EXCEPT
                    !.lyric = <<>>,
                    !.phoneme_expressions = [k \in 1..Len(@) |->
                        [@[k] EXCEPT !.abbr = ""]]]]]]]

\* C16: convert_to changes at most ustx_version, expressions,
\* exp_selectors, tempos, time_signatures, note lyrics and the abbr of note
\* phoneme expressions; tracks (also track expressions with abbr "acc"),
\* wave_parts, curves (also with abbr "acc"), the number and order of voice
\* parts and notes, note position, duration and tone, and the scalar fields
\* stay as they were.
Thm_C16 ==
    Called =>
        /\ Frame(P) = Frame(B)
        /\ P.tracks = B.tracks
        /\ P.wave_parts = B.wave_parts
        /\ SameShape(P, B)
        /\ \A i \in 1..Len(B.voice_parts) :
              /\ P.voice_parts[i].curves = B.voice_parts[i].curves
              /\ P.voice_parts[i].name = B.voice_parts[i].name
              /\ \A j \in 1..Len(B.voice_parts[i].notes) :
                    LET n == P.voice_parts[i].notes[j]
                        m == B.voice_parts[i].notes[j]
                    IN  <<n.position, n.duration, n.tone>> = <<m.position, m.duration, m.tone>>
        /\ \A f \in {"name", "comment", "output_dir", "cache_dir", "resolution", "bpm",
                      "beat_per_bar", "beat_unit", "exp_primary", "exp_secondary", "key"} :
              P[f] = B[f]

\* every step ran on a project with an "acc" curve and an "acc" track
\* expression: the accent was renamed in the notes, not in curve or track
Wit_C16 ==
    /\ Converted
    /\ Len(log) = 5
    /\ HasLegacyAccent(B)
    /\ \E i \in 1..Len(P.voice_parts) :
          /\ \E c \in 1..Len(P.voice_parts[i].curves) : P.voice_parts[i].curves[c].abbr = "acc"
          /\ \E j \in 1..Len(P.voice_parts[i].notes) :
                \E k \in 1..Len(PhonemeExpressions(P, i, j)) :
                    PhonemeExpressions(P, i, j)[k].abbr = "atk"
    /\ P.tracks[1].track_expressions[1].abbr = "acc"
    /\ P.voice_parts # B.voice_parts

\* one convert_to call on the project of the state it starts in
CallStep ==
    /\ project # <<>>
    /\ op' = "convert_to"
    /\ before' = project
    /\ project' # <<>>

\* what C17 says of one call, given the project before and after it
CallRule ==
    LET old == project[1]
        new == project'[1]
        t   == arg'.target[1]
    IN  /\ ~ret'.ok => new.ustx_version = old.ustx_version
        /\ ret'.ok => (new.ustx_version = <<t>> /\ AtMost(t, Current))
        /\ (op = "convert_to" /\ ret.ok /\ AtMost(t, Current)) => ret'.ok
        /\ AtMost(DetectedOf(old), Current) =>
              /\ AtMost(DetectedOf(new), Current)
              /\ AtMost(t, Current) => ret'.ok
        /\ Lower(Current, DetectedOf(old)) =>
              /\ ~ret'.ok
              /\ Lower(Current, DetectedOf(new))

\* between the calls the project stays on its side of CURRENT_VERSION
SameSide ==
    (project # <<>> /\ project' # <<>>) =>
        (AtMost(DetectedOf(project[1]), Current)
            <=> AtMost(DetectedOf(project'[1]), Current))

\* C17: over any sequence of convert_to calls on one project: a failed
\* call leaves ustx_version unchanged; after a successful call ustx_version
\* is Some(target) and is <= CURRENT_VERSION; once a call has succeeded,
\* every later call with target <= CURRENT_VERSION succeeds; a project
\* above CURRENT_VERSION is rejected by every call, whatever the target,
\* and stays above.
Thm_C17 == [][(CallStep => CallRule) /\ SameSide]_vars

\* a second successful call in a row, stamping a migrated project down to
\* 0.0.0
Wit_C17 ==
    /\ Converted
    /\ T = Version(0, 0, 0)
    /\ log = <<"stamp">>
    /\ B.ustx_version = <<Version(0, 4, 1)>>
    /\ "atk" \in DOMAIN B.expressions
    /\ B.expressions["atk"].name = "attack"
    /\ P.ustx_version = <<T>>

====
